---- MODULE Spec2Model ----
(***************************************************************************)
(* The tabular Q-learning agent of tabular_qlearner.py (class QLearner).   *)
(*                                                                         *)
(* Python floats are modelled as exact rationals <<numerator, denominator>>*)
(* in lowest terms with a positive denominator; None is modelled by the    *)
(* empty tuple where a string, a float or a reward vector is expected and  *)
(* by NoneAction where an action is expected.  The value store is the      *)
(* two-level defaultdict of the code: a function whose DOMAIN is the set   *)
(* of state keys present, each mapped to a function whose DOMAIN is the    *)
(* set of actions present.                                                 *)
(***************************************************************************)
EXTENDS Integers, Sequences, FiniteSets, TLC

VARIABLES
    config,            \* agent -> immutable constructor arguments
    epsilon_schedule,  \* agent -> reference to a schedule object
    schedules,         \* schedule object -> its state
    epsilon,           \* agent -> self._epsilon
    q_values,          \* agent -> self._q_values
    prev_info_state,   \* agent -> self._prev_info_state
    prev_action,       \* agent -> self._prev_action
    last_loss_value,   \* agent -> self._last_loss_value
    call,              \* history: the last step call, its inputs, outcome and pre-state
    ncalls,            \* history: number of step calls made
    nupdates,          \* history: agent -> number of learning updates performed
    nadvances,         \* history: schedule object -> number of step() advances
    ever_created,      \* history: agent -> entries its value store has ever held
    ever_updated,      \* history: agent -> entries a learning update has written
    main               \* position of main's training loop, with its history

vars == <<config, epsilon_schedule, schedules, epsilon, q_values, prev_info_state,
          prev_action, last_loss_value, call, ncalls, nupdates, nadvances,
          ever_created, ever_updated, main>>

\* Number of step calls explored, over all inputs and in the long runs.
MaxCalls == 2
MaxLongCalls == 4
\* Number of step calls explored with two agents.
MaxPairCalls == 3
\* Number of step calls explored in the training loop of main.
MaxMainCalls == 7

------------------------------------------------------------------------------
(* Exact rational arithmetic standing for Python float arithmetic.          *)

RECURSIVE GCD(_, _)
GCD(a, b) == IF b = 0 THEN a ELSE GCD(b, a % b)

Abs(n) == IF n < 0 THEN -n ELSE n

Rat(n, d) ==
    LET s == IF d < 0 THEN -1 ELSE 1
        g == GCD(Abs(n), Abs(d))
    IN  <<(s * n) \div g, (s * d) \div g>>

Zero == <<0, 1>>
One == <<1, 1>>
\* the operations reduce by common factors before they multiply, which keeps
\* the intermediate integers small
RAdd(x, y) ==
    LET g == GCD(x[2], y[2])
    IN  Rat(x[1] * (y[2] \div g) + y[1] * (x[2] \div g), (x[2] \div g) * y[2])
RNeg(x) == <<-x[1], x[2]>>
RSub(x, y) == RAdd(x, RNeg(y))
RMul(x, y) ==
    LET g1 == GCD(Abs(x[1]), y[2])
        g2 == GCD(Abs(y[1]), x[2])
    IN  Rat((x[1] \div g1) * (y[1] \div g2), (x[2] \div g2) * (y[2] \div g1))
RLt(x, y) ==
    LET g == GCD(x[2], y[2])
    IN  x[1] * (y[2] \div g) < y[1] * (x[2] \div g)
RLe(x, y) == ~RLt(y, x)

Range(s) == {s[k] : k \in 1..Len(s)}

RECURSIVE Concat(_)
Concat(ss) == IF ss = <<>> THEN <<>> ELSE Head(ss) \o Concat(Tail(ss))

\* (mutant) the last maximal element instead of the first
LastArgMax(xs) ==
    CHOOSE k \in 1..Len(xs) :
        /\ \A j \in 1..Len(xs) : RLe(xs[j], xs[k])
        /\ \A j \in (k + 1)..Len(xs) : RLt(xs[j], xs[k])

\* Index (1-based) of the first maximal element of a non-empty sequence of
\* rationals: np.argmax and the value picked by Python's max.
FirstArgMax(xs) ==
    CHOOSE k \in 1..Len(xs) :
        /\ \A j \in 1..Len(xs) : RLe(xs[j], xs[k])
        /\ \A j \in 1..(k - 1) : RLt(xs[j], xs[k])

------------------------------------------------------------------------------
(* None, and the defaultdict value store.                                    *)

None == <<>>
NoneAction == -1

\* collections.defaultdict(float) with no key yet
valuedict == [a \in {} |-> Zero]

\* self._q_values[k][a] evaluated as an expression: the value read ...
Lookup(q, k, a) ==
    IF k \in DOMAIN q /\ a \in DOMAIN q[k] THEN q[k][a] ELSE Zero

\* ... and the store afterwards: both missing levels are created by __getitem__.
Touch(q, k, a) ==
    LET inner == IF k \in DOMAIN q THEN q[k] ELSE valuedict
        inner2 == IF a \in DOMAIN inner THEN inner ELSE (a :> Zero) @@ inner
    IN  (k :> inner2) @@ q

\* (mutant) row = self._q_values[k] taken before the comprehension: the row is
\* created even when acts is empty
RECURSIVE TouchRowThenAll(_, _, _)
TouchRowThenAll(q, k, acts) ==
    LET q0 == IF k \in DOMAIN q THEN q ELSE (k :> valuedict) @@ q
    IN  IF acts = <<>> THEN q0
        ELSE TouchRowThenAll(Touch(q0, k, Head(acts)), k, Tail(acts))

\* [self._q_values[k][a] for a in acts]: the store after the comprehension
RECURSIVE TouchAll(_, _, _)
TouchAll(q, k, acts) ==
    IF acts = <<>> THEN q ELSE TouchAll(Touch(q, k, Head(acts)), k, Tail(acts))

\* the (state key, action) entries present in a value store
Entries(q) == UNION {{<<k, a>> : a \in DOMAIN q[k]} : k \in DOMAIN q}

\* (mutant) the assignment replaces the row by one that holds the entry alone
StoreInFreshRow(q, k, a, v) == (k :> (a :> v)) @@ q

\* (mutant) the assignment overwrites every entry of the row
StoreRow(q, k, a, v) ==
    LET t == Touch(q, k, a)
    IN  [t EXCEPT ![k] = [b \in DOMAIN t[k] |-> v]]

\* self._q_values[k][a] = v
Store(q, k, a, v) ==
    LET t == Touch(q, k, a)
    IN  [t EXCEPT ![k] = [t[k] EXCEPT ![a] = v]]

------------------------------------------------------------------------------
(* The exploration schedule object handed to the constructor.  Only its     *)
(* `value` attribute (read at construction) and its `step()` method (called *)
(* once inside the learn step) are used by the agent.                       *)

ConstantSchedule(v) ==
    [kind |-> "constant", init_val |-> v, final_val |-> v, num_steps |-> 1,
     step_taken |-> 0, val |-> v]

LinearSchedule(init, final, n) ==
    [kind |-> "linear", init_val |-> init, final_val |-> final, num_steps |-> n,
     step_taken |-> 0, val |-> init]

\* epsilon_schedule.value
ScheduleValue(s) == s.val

\* the schedule object after epsilon_schedule.step()
ScheduleStep(s) ==
    IF s.kind = "constant" THEN s
    ELSE LET t == s.step_taken + 1
             fraction == IF t >= s.num_steps THEN One ELSE Rat(t, s.num_steps)
         IN  [s EXCEPT !.step_taken = t,
                       !.val = RAdd(s.init_val,
                                    RMul(fraction, RSub(s.final_val, s.init_val)))]

------------------------------------------------------------------------------
(* Reward rules (tic_tac_toe_qlearner.py).                                  *)

flat_reward_mask == <<0, 1, 0, 1, 0, 1, 0, 0, 0>>

\* likeable_pattern(board): board is indexed from 0 in the code
likeable_pattern(board) ==
    IF \E k \in 1..9 : board[k] # flat_reward_mask[k] THEN 0 ELSE 1000

ApplyRule(rule, board) ==
    IF rule = "likeable_pattern" THEN likeable_pattern(board) ELSE 0

RECURSIVE SumRules(_, _)
SumRules(rules, board) ==
    IF rules = <<>> THEN 0
    ELSE ApplyRule(Head(rules), board) + SumRules(Tail(rules), board)

------------------------------------------------------------------------------
(* The environment's time steps offered to step().                          *)

EmptyPlane == <<0, 0, 0, 0, 0, 0, 0, 0, 0>>
FullPlane == <<1, 1, 1, 1, 1, 1, 1, 1, 1>>

\* 27-long observation vectors: the planes [0:9], [9:18], [18:] (empty cells,
\* player 0's marks, player 1's marks)
VecEmpty == FullPlane \o EmptyPlane \o EmptyPlane
VecO == <<0, 0, 0, 0, 0, 0, 1, 1, 1>> \o <<1, 0, 1, 0, 1, 0, 0, 0, 0>>
            \o flat_reward_mask

\* observations["info_state"]: one vector per player
InfoStates == {<<VecEmpty, VecEmpty>>, <<VecEmpty, VecO>>, <<VecO, VecO>>}

\* legal-action lists of the player to move (the other player's list is empty)
LegalLists == {<<0, 2>>, <<2, 0>>}

\* time_step.rewards: None or one reward per player
RewardVectors == {None, <<1, -1>>}

TimeStep(info, legal, player, rewards, last) ==
    [observations |-> [info_state |-> info,
                       legal_actions |-> IF player = 0 THEN <<legal, <<>>>>
                                         ELSE <<<<>>, legal>>,
                       current_player |-> player],
     rewards |-> rewards,
     last |-> last]

\* The time steps offered to the agent playing `player_id`: those where it is
\* to move, one where the other player is to move, and the terminal ones.
TimeSteps(player_id) ==
    {TimeStep(o, l, player_id, r, FALSE) :
        o \in InfoStates, l \in LegalLists, r \in RewardVectors}
    \cup {TimeStep(<<VecEmpty, VecEmpty>>, <<0, 2>>, 1 - player_id, None, FALSE)}
    \cup {TimeStep(o, <<>>, 0, r, TRUE) : o \in InfoStates, r \in RewardVectors}

\* The time steps of the long runs: one legal-action list, two observations.
LongTimeSteps(player_id) ==
    {TimeStep(o, <<2, 0>>, player_id, r, FALSE) :
        o \in {<<VecEmpty, VecO>>, <<VecO, VecO>>}, r \in RewardVectors}
    \cup {TimeStep(o, <<>>, 0, r, TRUE) :
        o \in {<<VecO, VecO>>}, r \in RewardVectors}

------------------------------------------------------------------------------
(* Constructor arguments.                                                   *)

Config(player_id, num_actions, step_size, schedule, discount_factor, rules, centralized) ==
    [player_id |-> player_id, num_actions |-> num_actions, step_size |-> step_size,
     epsilon_schedule |-> schedule, discount_factor |-> discount_factor,
     rules |-> rules, centralized |-> centralized]

\* configurations within the documented ranges
Configs ==
    {Config(0, 3, Rat(1, 2), ConstantSchedule(Rat(1, 5)), One, None, FALSE),
     Config(1, 3, Rat(1, 10), LinearSchedule(One, Zero, 2), Rat(1, 2),
            <<"likeable_pattern">>, TRUE)}

\* configurations outside them: step_size <= 0, num_actions <= 0,
\* discount_factor outside [0, 1]
MalformedConfigs ==
    {Config(0, 3, Zero, ConstantSchedule(Rat(1, 5)), One, None, FALSE),
     Config(0, 0, Rat(1, 2), ConstantSchedule(Rat(1, 5)), One, None, FALSE),
     Config(0, 3, Rat(1, 2), ConstantSchedule(Rat(1, 5)), Rat(2, 1),
            <<"likeable_pattern">>, FALSE)}

------------------------------------------------------------------------------
(* QLearner.                                                                *)

\* str(list of numbers), as its sequence of tokens: -1 for "[", -2 for "]"
StrList(vec) == <<-1>> \o vec \o <<-2>>

\* str(list of lists)
StrNested(vecs) == <<-1>> \o Concat([k \in 1..Len(vecs) |-> StrList(vecs[k])]) \o <<-2>>

\* (mutant) the key of the player's own slice whatever `centralized` is
OwnSliceKey(cfg, time_step) ==
    StrList(time_step.observations.info_state[cfg.player_id + 1])

\* lines 165-168 of step: the state key
InfoStateKey(cfg, time_step) ==
    IF cfg.centralized
    THEN StrNested(time_step.observations.info_state)
    ELSE StrList(time_step.observations.info_state[cfg.player_id + 1])

\* (mutant) the first action of minimal probability
ArgMinProbs(probs, n) ==
    CHOOSE a \in 0..(n - 1) :
        /\ \A b \in 0..(n - 1) : RLe(probs[a], probs[b])
        /\ \A b \in 0..(a - 1) : RLt(probs[a], probs[b])

\* np.argmax(probs) over the actions 0..n-1: the first action of maximal probability
ArgMaxProbs(probs, n) ==
    CHOOSE a \in 0..(n - 1) :
        /\ \A b \in 0..(n - 1) : RLe(probs[b], probs[a])
        /\ \A b \in 0..(a - 1) : RLt(probs[b], probs[a])

\* (mutant) the uniform distribution spread over all actions, legal or not
UniformProbsOverAll(n, legal_actions) == [a \in 0..(n - 1) |-> Rat(1, n)]

\* lines 103 and 107: probs[legal_actions] = 1 / len(legal_actions)
UniformProbs(n, legal_actions) ==
    [a \in 0..(n - 1) |->
        IF a \in Range(legal_actions) THEN Rat(1, Len(legal_actions)) ELSE Zero]

\* lines 103 and 113: probs[best_action] = 1
OneHotProbs(n, best_action) ==
    [a \in 0..(n - 1) |-> IF a = best_action THEN One ELSE Zero]

\* _epsilon_greedy up to the draw of np.random.choice: `explore` is the outcome
\* of np.random.random() < epsilon.  Returns the exception raised (or ""), the
\* probabilities and the value store after the reads.
epsilon_greedy(q, n, info_state, legal_actions, explore) ==
    IF n < 0 THEN
        \* np.zeros of a negative size
        [error |-> "ValueError", probs |-> None, q |-> q]
    ELSE IF explore THEN
        IF Len(legal_actions) = 0 THEN
            [error |-> "ZeroDivisionError", probs |-> None, q |-> q]
        ELSE IF \E a \in Range(legal_actions) : a >= n THEN
            [error |-> "IndexError", probs |-> None, q |-> q]
        ELSE
            [error |-> "", probs |-> UniformProbs(n, legal_actions), q |-> q]
    ELSE
        IF Len(legal_actions) = 0 THEN
            \* the comprehension of line 111 runs, then np.argmax of an empty
            \* array raises
            [error |-> "ValueError", probs |-> None,
             q |-> TouchAll(q, info_state, legal_actions)]
        ELSE LET q1 == TouchAll(q, info_state, legal_actions)
                 vals == [k \in 1..Len(legal_actions) |->
                             Lookup(q, info_state, legal_actions[k])]
                 best_action == legal_actions[FirstArgMax(vals)]
             IN  IF best_action >= n THEN
                     [error |-> "IndexError", probs |-> None, q |-> q1]
                 ELSE
                     [error |-> "", probs |-> OneHotProbs(n, best_action), q |-> q1]

\* _get_action_reward
get_action_reward(cfg, time_step) ==
    IF time_step.rewards = None THEN Zero
    ELSE LET board == time_step.observations.info_state[1]
             current_player_board ==
                 IF cfg.player_id = 0 THEN SubSeq(board, 10, 18)
                 ELSE SubSeq(board, 19, Len(board))
             extra_reward ==
                 IF cfg.rules # None THEN SumRules(cfg.rules, current_player_board)
                 ELSE 0
         IN  RAdd(Rat(time_step.rewards[cfg.player_id + 1], 1), Rat(extra_reward, 1))

\* (mutant) the target without the discounted value of the next state
TargetWithoutBootstrap(cfg, q, time_step, info_state, legal_actions, reward) == reward

\* the TD target of lines 187-192, given the store `q` the reads see
Target(cfg, q, time_step, info_state, legal_actions, reward) ==
    IF time_step.last THEN reward
    ELSE LET vals == [k \in 1..Len(legal_actions) |->
                         Lookup(q, info_state, legal_actions[k])]
         IN  RAdd(reward, RMul(cfg.discount_factor, vals[FirstArgMax(vals)]))

\* the new estimate of lines 194-196
Updated(cfg, old, target) == RAdd(old, RMul(cfg.step_size, RSub(target, old)))

\* (mutant) the learn step also runs when there is no pending transition
LearnsWithoutPending(prev, is_evaluation) == ~is_evaluation

\* line 183: the learn step runs
Learns(prev, is_evaluation) == prev # None /\ ~is_evaluation

\* (mutant) the call records its state and action in evaluation too
RecordsInEvaluation(is_evaluation) == TRUE

\* (mutant) no call records its state and action
RecordsNothing(is_evaluation) == FALSE

\* line 209: the call records its state and action as the pending transition
Records(is_evaluation) == ~is_evaluation

\* line 179: the sampled action is replaced by np.argmax(probs)
TakesArgMax(top1, is_evaluation) == top1 \/ is_evaluation

\* The agent `self` (the record of its attributes, with the state of its schedule
\* object in `schedule`) after step(time_step, is_evaluation, top1), with the
\* call's outcome.  `explore` and `choice` are the draws of np.random.random()
\* < epsilon and of np.random.choice.
StepResult(self, time_step, is_evaluation, top1, explore, choice) ==
    LET cfg == self.config
        info_state == InfoStateKey(cfg, time_step)
        legal_actions == time_step.observations.legal_actions[cfg.player_id + 1]
        acts == ~time_step.last
        eg == epsilon_greedy(self.q_values, cfg.num_actions, info_state,
                             legal_actions, explore)
        raised == acts /\ eg.error # ""
        action == IF ~acts THEN NoneAction
                  ELSE IF TakesArgMax(top1, is_evaluation)
                       THEN ArgMaxProbs(eg.probs, cfg.num_actions)
                       ELSE choice
        probs == IF acts THEN eg.probs ELSE None
        q1 == IF acts THEN eg.q ELSE self.q_values
        learns == Learns(self.prev_info_state, is_evaluation)
        reward == get_action_reward(cfg, time_step)
        target == Target(cfg, q1, time_step, info_state, legal_actions, reward)
        q2 == IF time_step.last THEN q1 ELSE TouchAll(q1, info_state, legal_actions)
        old == Lookup(q2, self.prev_info_state, self.prev_action)
        new == Updated(cfg, old, target)
        q3 == Store(q2, self.prev_info_state, self.prev_action, new)
        schedule1 == ScheduleStep(self.schedule)
        learned == [self EXCEPT !.q_values = q3,
                                !.last_loss_value = RSub(new, target),
                                !.schedule = schedule1,
                                !.epsilon = ScheduleValue(schedule1)]
        self1 == IF learns THEN learned ELSE [self EXCEPT !.q_values = q1]
        info == [info_state |-> info_state, legal_actions |-> legal_actions,
                 learned |-> learns,
                 reward |-> IF learns THEN reward ELSE None,
                 target |-> IF learns THEN target ELSE None]
    IN  IF raised THEN
            [self |-> [self EXCEPT !.q_values = eg.q], outcome |-> eg.error,
             action |-> NoneAction, probs |-> None,
             info |-> [info_state |-> info_state, legal_actions |-> legal_actions,
                       learned |-> FALSE, reward |-> None, target |-> None]]
        ELSE IF learns /\ time_step.last THEN
            [self |-> [self1 EXCEPT !.prev_info_state = None],
             outcome |-> "None", action |-> NoneAction, probs |-> None,
             info |-> info]
        ELSE IF Records(is_evaluation) THEN
            [self |-> [self1 EXCEPT !.prev_info_state = info_state,
                                    !.prev_action = action],
             outcome |-> "StepOutput", action |-> action, probs |-> probs,
             info |-> info]
        ELSE
            [self |-> self1, outcome |-> "StepOutput", action |-> action,
             probs |-> probs, info |-> info]

\* the outcomes np.random.random() < epsilon can have: the draw lies in [0, 1)
ExploreDraws(self, time_step, is_evaluation) ==
    LET eps == IF is_evaluation THEN Zero ELSE self.epsilon
    IN  IF time_step.last THEN {FALSE}
        ELSE {b \in BOOLEAN : (b => RLt(Zero, eps)) /\ (~b => RLt(eps, One))}

\* the actions np.random.choice(range(num_actions), p=probs) can return
ChoiceDraws(self, time_step, explore) ==
    LET cfg == self.config
        eg == epsilon_greedy(self.q_values, cfg.num_actions,
                             InfoStateKey(cfg, time_step),
                             time_step.observations.legal_actions[cfg.player_id + 1],
                             explore)
    IN  IF time_step.last \/ eg.error # "" THEN {NoneAction}
        ELSE {a \in DOMAIN eg.probs : RLt(Zero, eg.probs[a])}

------------------------------------------------------------------------------
(* State machine.                                                           *)

Agents == {0}

\* the attributes of agent i as one record
Self(i) ==
    [config |-> config[i], epsilon |-> epsilon[i], q_values |-> q_values[i],
     prev_info_state |-> prev_info_state[i], prev_action |-> prev_action[i],
     last_loss_value |-> last_loss_value[i],
     schedule |-> schedules[epsilon_schedule[i]]]

\* QLearner.__init__ for every agent of DOMAIN cfgs: agent i keeps a reference
\* refs[i] to the schedule object it was given (line 80), objs being the
\* schedule objects that exist
ConstructWith(cfgs, refs, objs) ==
    /\ config = cfgs
    /\ epsilon_schedule = refs
    /\ schedules = objs
    /\ epsilon = [i \in DOMAIN cfgs |-> ScheduleValue(objs[refs[i]])]
    /\ q_values = [i \in DOMAIN cfgs |-> <<>>]
    /\ prev_info_state = [i \in DOMAIN cfgs |-> None]
    /\ last_loss_value = [i \in DOMAIN cfgs |-> None]
    /\ prev_action = [i \in DOMAIN cfgs |-> NoneAction]
    /\ call = [agent |-> -1, outcome |-> "init"]
    /\ ncalls = 0
    /\ nupdates = [i \in DOMAIN cfgs |-> 0]
    /\ nadvances = [r \in DOMAIN objs |-> 0]
    /\ ever_created = [i \in DOMAIN cfgs |-> {}]
    /\ ever_updated = [i \in DOMAIN cfgs |-> {}]
    /\ main = [pc |-> "start", episode |-> 0, mover |-> 0, acted |-> {},
               final |-> None,
               recorded |-> [i \in DOMAIN cfgs |-> -1],
               used |-> [agent |-> -1, recorded |-> -1, episode |-> -1]]

\* QLearner.__init__ for every agent, each given a schedule object of its own
Construct(cfgs) ==
    ConstructWith(cfgs, [i \in DOMAIN cfgs |-> i],
                  [i \in DOMAIN cfgs |-> cfgs[i].epsilon_schedule])

Init == \E cfgs \in [Agents -> Configs] : Construct(cfgs)

InitAnyConfig == \E cfgs \in [Agents -> Configs \cup MalformedConfigs] : Construct(cfgs)

step(i, time_step, is_evaluation, top1, explore, choice) ==
    /\ \E r \in {StepResult(Self(i), time_step, is_evaluation, top1, explore, choice)} :
       LET ref == epsilon_schedule[i]
       IN  /\ epsilon' = [epsilon EXCEPT ![i] = r.self.epsilon]
           /\ q_values' = [q_values EXCEPT ![i] = r.self.q_values]
           /\ prev_info_state' = [prev_info_state EXCEPT ![i] = r.self.prev_info_state]
           /\ prev_action' = [prev_action EXCEPT ![i] = r.self.prev_action]
           /\ last_loss_value' = [last_loss_value EXCEPT ![i] = r.self.last_loss_value]
           /\ schedules' = [schedules EXCEPT ![ref] = r.self.schedule]
           /\ nadvances' = [nadvances EXCEPT
                               ![ref] = IF r.info.learned THEN @ + 1 ELSE @]
           /\ nupdates' = [nupdates EXCEPT
                              ![i] = IF r.info.learned THEN @ + 1 ELSE @]
           /\ ever_created' = [ever_created EXCEPT
                                  ![i] = @ \cup Entries(r.self.q_values)]
           /\ ever_updated' = [ever_updated EXCEPT
                                  ![i] = IF r.info.learned
                                         THEN @ \cup {<<prev_info_state[i], prev_action[i]>>}
                                         ELSE @]
           /\ call' = [agent |-> i, time_step |-> time_step,
                       is_evaluation |-> is_evaluation, top1 |-> top1,
                       explore |-> explore, outcome |-> r.outcome,
                       action |-> r.action, probs |-> r.probs,
                       info_state |-> r.info.info_state,
                       legal_actions |-> r.info.legal_actions,
                       learned |-> r.info.learned, reward |-> r.info.reward,
                       target |-> r.info.target,
                       pre |-> [self |-> Self(i), nadvances |-> nadvances[ref],
                                nupdates |-> nupdates[i],
                                others |-> [j \in DOMAIN config \ {i} |-> Self(j)]]]
    /\ ncalls' = ncalls + 1
    /\ UNCHANGED <<config, epsilon_schedule>>

\* the values of top1 the callers pass: it is read only when the call acts
Top1s(time_step) == IF time_step.last THEN {FALSE} ELSE BOOLEAN

Next ==
    /\ ncalls < MaxCalls
    /\ \E i \in Agents, is_evaluation \in BOOLEAN :
         \E time_step \in TimeSteps(config[i].player_id) :
           \E explore \in ExploreDraws(Self(i), time_step, is_evaluation) :
             \E choice \in ChoiceDraws(Self(i), time_step, explore),
                top1 \in Top1s(time_step) :
                 step(i, time_step, is_evaluation, top1, explore, choice)
    /\ UNCHANGED main

\* longer runs over fewer inputs
NextLong ==
    /\ ncalls < MaxLongCalls
    /\ \E i \in Agents, is_evaluation \in BOOLEAN :
         \E time_step \in LongTimeSteps(config[i].player_id) :
           \E explore \in ExploreDraws(Self(i), time_step, is_evaluation) :
             \E choice \in ChoiceDraws(Self(i), time_step, explore) :
                 step(i, time_step, is_evaluation, FALSE, explore, choice)
    /\ UNCHANGED main

Spec == Init /\ [][Next]_vars

SpecLong == Init /\ [][NextLong]_vars

SpecAnyConfig == InitAnyConfig /\ [][Next]_vars

\* Two agents, one per player, as the callers build them.
Pair == {0, 1}

\* QLearner(player_id=idx, num_actions=3): every other argument at its default
DefaultConfig(idx) ==
    Config(idx, 3, Rat(1, 10), ConstantSchedule(Rat(1, 5)), One, None, FALSE)

\* QLearner(player_id=idx, num_actions=3, step_size=0.5, epsilon_schedule=s) with
\* s a decaying schedule
DecayingConfig(idx) ==
    Config(idx, 3, Rat(1, 2), LinearSchedule(One, Zero, 2), One, None, FALSE)

\* The default of epsilon_schedule is evaluated once, when the class body is
\* executed, so agents built without the argument reference one object; a
\* caller may build each agent with a schedule of its own or hand one schedule
\* object to both.
InitPair ==
    \/ ConstructWith([i \in Pair |-> DefaultConfig(i)], [i \in Pair |-> 0],
                     [r \in {0} |-> ConstantSchedule(Rat(1, 5))])
    \/ Construct([i \in Pair |-> DecayingConfig(i)])
    \/ ConstructWith([i \in Pair |-> DecayingConfig(i)], [i \in Pair |-> 0],
                     [r \in {0} |-> LinearSchedule(One, Zero, 2)])

\* the time steps offered to the two agents: two observations, one legal list
PairTimeSteps(player_id) ==
    {TimeStep(o, <<2, 0>>, player_id, None, FALSE) :
        o \in {<<VecEmpty, VecO>>, <<VecO, VecO>>}}
    \cup {TimeStep(<<VecO, VecO>>, <<>>, 0, <<1, -1>>, TRUE)}

NextPair ==
    /\ ncalls < MaxPairCalls
    /\ \E i \in DOMAIN config, is_evaluation \in BOOLEAN :
         \E time_step \in PairTimeSteps(config[i].player_id) :
           \E explore \in ExploreDraws(Self(i), time_step, is_evaluation) :
             \E choice \in ChoiceDraws(Self(i), time_step, explore) :
                 step(i, time_step, is_evaluation, FALSE, explore, choice)
    /\ UNCHANGED main

SpecPair == InitPair /\ [][NextPair]_vars

------------------------------------------------------------------------------
(* The training loop of main (tic_tac_toe_qlearner.py), from the agents'    *)
(* side: env.reset() and env.step() are the choice of the next time step.   *)
(* `main` holds the loop's position: pc ("start" before an episode's first  *)
(* move, "playing" inside the while loop, "final" inside the for loop after *)
(* it), the episode number, the player to move, the players that have moved,*)
(* the terminal time step, and as history the episode in which each agent's *)
(* pending transition was recorded and the one the last update used.        *)

\* QLearner(player_id=idx, num_actions=..., epsilon_schedule=ConstantSchedule(0.2),
\* discount_factor=0.6, rules=[likeable_pattern]), with 3 actions
MainConfig(idx) ==
    Config(idx, 3, Rat(1, 10), ConstantSchedule(Rat(1, 5)), Rat(3, 5),
           <<"likeable_pattern">>, FALSE)

InitMain == Construct([i \in Pair |-> MainConfig(i)])

\* (mutant) the environment may end a game before both players have moved
EndsAnytime(acted) == TRUE

\* a game ends only after every player has moved
EpisodeMayEnd(acted) == acted = Pair

\* the time steps of the player to move: env.reset() shows the empty board and
\* reports no reward, a later env.step() reports the rewards of the move
MoveTimeSteps(player_id, first) ==
    IF first
    THEN {TimeStep(<<VecEmpty, VecEmpty>>, <<2, 0>>, player_id, None, FALSE)}
    ELSE {TimeStep(o, <<2, 0>>, player_id, <<0, 0>>, FALSE) :
             o \in {<<VecEmpty, VecO>>, <<VecO, VecO>>}}

\* the terminal time steps
FinalTimeSteps == {TimeStep(<<VecO, VecO>>, <<>>, 0, <<1, -1>>, TRUE)}

\* the episode in which the pending transition agent i holds after the call
\* was recorded: -1 when it holds none
RecordedAfter(i) ==
    IF prev_info_state'[i] = None THEN -1
    ELSE IF call'.outcome = "StepOutput" /\ Records(call'.is_evaluation)
         THEN main.episode
         ELSE main.recorded[i]

\* the pending transition the call's learning update used, if it made one
UsedAfter(i) ==
    IF call'.learned
    THEN [agent |-> i, recorded |-> main.recorded[i], episode |-> main.episode]
    ELSE main.used

\* eval_against_random_bots before an episode: one call of its loop
EvalStep(i, time_step, top1, explore, choice) ==
    /\ ncalls < MaxMainCalls
    /\ main.pc = "start"
    /\ step(i, time_step, TRUE, top1, explore, choice)
    /\ main' = [main EXCEPT !.recorded[i] = RecordedAfter(i),
                            !.used = UsedAfter(i)]

\* one pass of the while loop: the player to move is stepped in training mode
TrainStep(time_step, explore, choice) ==
    /\ ncalls < MaxMainCalls
    /\ main.pc \in {"start", "playing"}
    /\ step(main.mover, time_step, FALSE, FALSE, explore, choice)
    /\ main' = [main EXCEPT !.pc = "playing",
                            !.mover = 1 - main.mover,
                            !.acted = @ \cup {main.mover},
                            !.recorded[main.mover] = RecordedAfter(main.mover),
                            !.used = UsedAfter(main.mover)]

\* one pass of the for loop after the game: the agents are stepped in turn with
\* the terminal time step
FinalStep(time_step) ==
    /\ ncalls < MaxMainCalls
    /\ \/ main.pc = "playing" /\ EpisodeMayEnd(main.acted)
       \/ main.pc = "final" /\ time_step = main.final
    /\ LET i == IF main.pc = "playing" THEN 0 ELSE 1
       IN  /\ step(i, time_step, FALSE, FALSE, FALSE, NoneAction)
           /\ main' = IF i = 0
                      THEN [main EXCEPT !.pc = "final", !.final = time_step,
                                        !.recorded[i] = RecordedAfter(i),
                                        !.used = UsedAfter(i)]
                      ELSE [main EXCEPT !.pc = "start", !.final = None,
                                        !.episode = @ + 1, !.mover = 0,
                                        !.acted = {},
                                        !.recorded[i] = RecordedAfter(i),
                                        !.used = UsedAfter(i)]

NextMain ==
    \/ \E i \in DOMAIN config, top1 \in BOOLEAN :
         \E time_step \in MoveTimeSteps(config[i].player_id, TRUE)
                             \cup MoveTimeSteps(config[i].player_id, FALSE) :
           \E explore \in ExploreDraws(Self(i), time_step, TRUE) :
             \E choice \in ChoiceDraws(Self(i), time_step, explore) :
                 EvalStep(i, time_step, top1, explore, choice)
    \/ \E time_step \in MoveTimeSteps(main.mover, main.pc = "start") :
         \E explore \in ExploreDraws(Self(main.mover), time_step, FALSE) :
           \E choice \in ChoiceDraws(Self(main.mover), time_step, explore) :
               TrainStep(time_step, explore, choice)
    \/ \E time_step \in FinalTimeSteps : FinalStep(time_step)

SpecMain == InitMain /\ [][NextMain]_vars

------------------------------------------------------------------------------
(* Properties of step, stated on the last call (`call`) and the state it left. *)

Errors == {"ValueError", "ZeroDivisionError", "IndexError"}

\* a call was made / a call was made and raised nothing
Called == call.outcome # "init"
Returned == Called /\ call.outcome \notin Errors

Me == call.agent
Pre == call.pre.self
Ref == epsilon_schedule[call.agent]

\* the call is a training call made while a pending transition exists, and it
\* got past its act step
Updating == Returned /\ ~call.is_evaluation /\ Pre.prev_info_state # None

\* the largest stored estimate of the actions `legal` at key k, missing entries
\* counted as 0
MaxStored(q, k, legal) ==
    LET stored == {Lookup(q, k, a) : a \in Range(legal)}
    IN  CHOOSE v \in stored : \A w \in stored : RLe(w, v)

RECURSIVE SumUpTo(_, _)
SumUpTo(probs, k) == IF k < 0 THEN Zero ELSE RAdd(probs[k], SumUpTo(probs, k - 1))

\* C1: an evaluation call leaves the value store exactly as it was, its sets of
\* state keys and of (state key, action) entries included.
C1_EvaluationKeepsValueStore ==
    (Called /\ call.is_evaluation) => q_values[Me] = Pre.q_values

\* C2: an evaluation call leaves the pending transition (prior key and prior
\* action), the cached exploration probability and the schedule as they were.
C2_EvaluationKeepsPendingAndSchedule ==
    (Called /\ call.is_evaluation) =>
        /\ prev_info_state[Me] = Pre.prev_info_state
        /\ prev_action[Me] = Pre.prev_action
        /\ epsilon[Me] = Pre.epsilon
        /\ schedules[Ref] = Pre.schedule
        /\ nadvances[Ref] = call.pre.nadvances

\* an evaluation call that acted while a pending transition was held
C2_Witness ==
    /\ Called /\ call.is_evaluation /\ ~call.time_step.last
    /\ call.outcome = "StepOutput"
    /\ Pre.prev_info_state # None /\ Pre.prev_action # NoneAction

\* the target and the new estimate as the update rule states them, from the
\* store before the call
ClaimedTarget ==
    IF call.time_step.last THEN call.reward
    ELSE RAdd(call.reward,
              RMul(config[Me].discount_factor,
                   MaxStored(Pre.q_values, call.info_state, call.legal_actions)))

ClaimedEstimate ==
    LET old == Lookup(Pre.q_values, Pre.prev_info_state, Pre.prev_action)
    IN  RAdd(old, RMul(config[Me].step_size, RSub(ClaimedTarget, old)))

\* C3: a training call made while a pending transition (s, a) exists sets Q[s][a]
\* to old + step_size * (target - old), with target = reward at a terminal time
\* step and reward + discount_factor * (largest stored estimate of the current
\* state's legal actions) otherwise, and records the loss new - target.
C3_TDUpdate ==
    Updating =>
        /\ Pre.prev_info_state \in DOMAIN q_values[Me]
        /\ Pre.prev_action \in DOMAIN q_values[Me][Pre.prev_info_state]
        /\ q_values[Me][Pre.prev_info_state][Pre.prev_action] = ClaimedEstimate
        /\ last_loss_value[Me] = RSub(ClaimedEstimate, ClaimedTarget)

\* a non-terminal update with step_size 1/2, discount 1, old estimate 0, reward 0
\* and next-state estimates {1/2, 0}: target 1/2, new estimate 1/4
C3_Witness ==
    /\ Updating /\ ~call.time_step.last
    /\ config[Me].step_size = Rat(1, 2) /\ config[Me].discount_factor = One
    /\ Lookup(Pre.q_values, Pre.prev_info_state, Pre.prev_action) = Zero
    /\ call.reward = Zero
    /\ {Lookup(Pre.q_values, call.info_state, a) : a \in Range(call.legal_actions)}
           = {Rat(1, 2), Zero}
    /\ call.target = Rat(1, 2)
    /\ q_values[Me][Pre.prev_info_state][Pre.prev_action] = Rat(1, 4)

\* the terminal example: step_size 1/2, old estimate 0, terminal reward 1 give
\* the new estimate 1/2 and the loss -1/2
C3_TerminalExample ==
    /\ Updating /\ call.time_step.last
    /\ config[Me].step_size = Rat(1, 2)
    /\ Lookup(Pre.q_values, Pre.prev_info_state, Pre.prev_action) = Zero
    /\ call.reward = One
    /\ q_values[Me][Pre.prev_info_state][Pre.prev_action] = Rat(1, 2)
    /\ last_loss_value[Me] = Rat(-1, 2)

\* C4: after a training call at a terminal time step the agent holds no pending
\* transition, whether or not it held one before the call.
C4_TerminalTrainingClearsPending ==
    (Called /\ ~call.is_evaluation /\ call.time_step.last) =>
        prev_info_state[Me] = None

\* the reward the learning step is said to use: the player's environment reward,
\* 0 when there is none, plus the sum of the rules on the player's slice
ClaimedReward ==
    LET cfg == config[Me]
        ts == call.time_step
        env == IF ts.rewards = None THEN Zero
               ELSE Rat(ts.rewards[cfg.player_id + 1], 1)
        board == ts.observations.info_state[1]
        slice == IF cfg.player_id = 0 THEN SubSeq(board, 10, 18)
                 ELSE SubSeq(board, 19, Len(board))
    IN  RAdd(env, Rat(SumRules(cfg.rules, slice), 1))

\* C5: the reward fed to the update is the environment reward (0 when the time
\* step carries none) plus the sum of the reward rules, on every learning step.
C5_RewardIsEnvironmentPlusShaping ==
    (Called /\ call.learned) => call.reward = ClaimedReward

\* C6: a call that acts on a non-empty legal-action list returns a probability
\* vector over all num_actions actions that sums to 1 and is 0 outside the list.
C6_ProbabilityVector ==
    (Called /\ ~call.time_step.last /\ call.legal_actions # <<>>) =>
        /\ call.outcome = "StepOutput"
        /\ DOMAIN call.probs = 0..(config[Me].num_actions - 1)
        /\ SumUpTo(call.probs, config[Me].num_actions - 1) = One
        /\ \A a \in DOMAIN call.probs :
               a \notin Range(call.legal_actions) => call.probs[a] = Zero

\* a training call with top1 whose exploring branch spread the probability over
\* the two legal actions
C6_Witness ==
    /\ Returned /\ ~call.time_step.last /\ call.explore /\ call.top1
    /\ ~call.is_evaluation
    /\ call.probs[0] = Rat(1, 2) /\ call.probs[1] = Zero /\ call.probs[2] = Rat(1, 2)

\* C7: the schedule is advanced exactly once in a training call that updates (a
\* pending transition exists) and in no other call, so the number of advances
\* equals the number of learning updates.
C7_ScheduleAdvancesWithUpdates ==
    Called =>
        /\ nadvances[Ref] = call.pre.nadvances + (IF Updating THEN 1 ELSE 0)
        /\ nupdates[Me] = call.pre.nupdates + (IF Updating THEN 1 ELSE 0)
        /\ nadvances[Ref] = nupdates[Me]
        /\ schedules[Ref].kind = "linear" =>
               schedules[Ref].step_taken = nadvances[Ref]
        /\ ~Updating => schedules[Ref] = Pre.schedule /\ epsilon[Me] = Pre.epsilon

\* the second learning update of an agent with a decaying schedule
C7_Witness ==
    /\ Updating /\ nadvances[Ref] = 2 /\ nupdates[Me] = 2
    /\ schedules[Ref].kind = "linear" /\ Pre.epsilon = Rat(1, 2)
    /\ epsilon[Me] = Zero /\ ncalls > 2

\* a greedy selection was made: the call acted and the exploration draw was not
\* below epsilon
GreedyCall == Returned /\ ~call.time_step.last /\ ~call.explore

\* the action a greedy call on the same state key and legal list returns now
RepeatedGreedyAction ==
    LET n == config[Me].num_actions
        eg == epsilon_greedy(q_values[Me], n, call.info_state, call.legal_actions,
                             FALSE)
    IN  ArgMaxProbs(eg.probs, n)

WellFormed(cfg) ==
    /\ RLt(Zero, cfg.step_size)
    /\ cfg.num_actions > 0
    /\ RLe(Zero, cfg.discount_factor)
    /\ RLe(cfg.discount_factor, One)

\* C9: no agent that can be stepped results from a malformed configuration.
C9_MalformedConfigurationRejected ==
    Returned => WellFormed(config[Me])

\* C10: a call at a non-terminal time step with an empty legal-action list
\* fails instead of returning an action, and leaves the value store, the
\* schedule and the pending transition as they were.
C10_NoLegalActionsFails ==
    (Called /\ ~call.time_step.last /\ call.legal_actions = <<>>) =>
        /\ call.outcome \in Errors
        /\ call.action = NoneAction /\ call.probs = None
        /\ q_values[Me] = Pre.q_values
        /\ schedules[Ref] = Pre.schedule
        /\ nadvances[Ref] = call.pre.nadvances
        /\ epsilon[Me] = Pre.epsilon
        /\ prev_info_state[Me] = Pre.prev_info_state
        /\ prev_action[Me] = Pre.prev_action

\* the failure in the exploring branch of a training call that holds a pending
\* transition
C10_Witness ==
    /\ Called /\ ~call.time_step.last /\ call.legal_actions = <<>>
    /\ call.explore /\ ~call.is_evaluation
    /\ Pre.prev_info_state # None /\ Pre.prev_action # NoneAction
    /\ call.outcome = "ZeroDivisionError"

\* the call was made by one agent while agent j, another one, existed
Others == IF Called THEN DOMAIN call.pre.others ELSE {}

\* C11: a step call on one agent leaves every other agent's value store,
\* exploration schedule (the object's state and the cached probability) and
\* pending transition as they were.
C11_AgentsShareNothing ==
    \A j \in Others :
        /\ q_values[j] = call.pre.others[j].q_values
        /\ prev_info_state[j] = call.pre.others[j].prev_info_state
        /\ prev_action[j] = call.pre.others[j].prev_action
        /\ epsilon[j] = call.pre.others[j].epsilon
        /\ schedules[epsilon_schedule[j]] = call.pre.others[j].schedule

\* the agents of the call reference distinct schedule objects, or a constant one
C11_OwnOrConstantSchedule ==
    \A j \in Others :
        \/ epsilon_schedule[j] # epsilon_schedule[Me]
        \/ schedules[epsilon_schedule[j]].kind = "constant"

\* apart from a decaying schedule object handed to both agents, nothing of one
\* agent is changed by a call on the other
C11_ExceptSharedDecayingSchedule ==
    C11_OwnOrConstantSchedule => C11_AgentsShareNothing

\* the observations that show the agent of the call the slice of its own player
\* that the call's time step showed, and another slice of the other player
SameOwnSliceOnly ==
    LET own == config[Me].player_id + 1
        seen == call.time_step.observations.info_state
    IN  {o \in InfoStates : o[own] = seen[own] /\ o # seen}

\* the state key step computes when the same call is made with the observation o
KeyOfCallWith(o) ==
    StepResult(Pre, [call.time_step EXCEPT !.observations.info_state = o],
               call.is_evaluation, call.top1, call.explore, call.action).info.info_state

\* C12: for two time steps that agree on the slice of the agent's own player
\* and differ on another player's, step computes the same state key when
\* centralized is False and different keys when it is True.
C12_KeyCentralizedOrOwnSlice ==
    Called =>
        \A o \in SameOwnSliceOnly :
            (KeyOfCallWith(o) = call.info_state) <=> ~config[Me].centralized

\* a call of a centralized agent whose key differs from the key of a time step
\* with the same own slice
C12_Witness ==
    /\ Returned /\ config[Me].centralized
    /\ \E o \in SameOwnSliceOnly : KeyOfCallWith(o) # call.info_state

\* the same for an agent that is not centralized: the keys are equal
C12_DecentralizedExample ==
    /\ Returned /\ ~config[Me].centralized
    /\ \E o \in SameOwnSliceOnly : KeyOfCallWith(o) = call.info_state

\* C13: every entry of every value store is keyed by an action id in
\* [0, num_actions); none is keyed by the absent action.
C13_EntriesKeyedByActionIds ==
    \A i \in DOMAIN config :
        \A k \in DOMAIN q_values[i] :
            \A a \in DOMAIN q_values[i][k] : a \in 0..(config[i].num_actions - 1)

\* the only key outside that range is the absent action, under the key of a
\* terminal time step
C13_OnlyAbsentActionOutside ==
    \A i \in DOMAIN config :
        \A k \in DOMAIN q_values[i] :
            \A a \in DOMAIN q_values[i][k] :
                a \in 0..(config[i].num_actions - 1) \/ a = NoneAction

\* a training call at a non-terminal time step that returned
ActingTrainingCall == Returned /\ ~call.is_evaluation /\ ~call.time_step.last

\* C14: after a training call at a non-terminal time step the pending
\* transition is (the state key of that call, the action the call returned),
\* with or without a learning update in the call and with or without top1.
C14_PendingIsStateAndReturnedAction ==
    ActingTrainingCall =>
        /\ prev_info_state[Me] = InfoStateKey(config[Me], call.time_step)
        /\ prev_info_state[Me] # None
        /\ prev_action[Me] = call.action
        /\ call.action \in Range(call.legal_actions)

\* a training call with top1 that learned, explored, and returned the first of
\* the equally probable actions although another one was recorded before
C14_Witness ==
    /\ ActingTrainingCall /\ call.learned /\ call.top1 /\ call.explore
    /\ call.legal_actions = <<2, 0>> /\ call.action = 0
    /\ Pre.prev_action = 2
    /\ Pre.prev_info_state # InfoStateKey(config[Me], call.time_step)

\* the first acting call of an agent: no pending transition before, one after
C14_FirstActingCall ==
    /\ ActingTrainingCall /\ ~call.learned /\ Pre.prev_info_state = None
    /\ prev_info_state[Me] # None

\* the pending transition the call found
PriorEntry == <<Pre.prev_info_state, Pre.prev_action>>

\* C15: a learning update changes the value of no entry but the one at (prior
\* key, prior action): every other entry that existed before the call is still
\* there with its value, every other entry created in the call holds 0.0, and
\* in a terminal training call no other entry and no other row is created.
C15_UpdateWritesOneEntry ==
    Updating =>
        /\ PriorEntry \in Entries(q_values[Me])
        /\ Entries(Pre.q_values) \subseteq Entries(q_values[Me])
        /\ \A e \in Entries(q_values[Me]) \ {PriorEntry} :
               q_values[Me][e[1]][e[2]] =
                   IF e \in Entries(Pre.q_values)
                   THEN Pre.q_values[e[1]][e[2]] ELSE Zero
        /\ call.time_step.last =>
               /\ Entries(q_values[Me]) = Entries(Pre.q_values) \cup {PriorEntry}
               /\ DOMAIN q_values[Me] = DOMAIN Pre.q_values \cup {Pre.prev_info_state}

\* an update at a non-terminal time step that changed its entry, kept another
\* entry holding a learned value and created an entry for the current state
C15_Witness ==
    /\ Updating /\ ~call.time_step.last
    /\ PriorEntry \in Entries(Pre.q_values)
    /\ q_values[Me][PriorEntry[1]][PriorEntry[2]]
           # Pre.q_values[PriorEntry[1]][PriorEntry[2]]
    /\ \E e \in Entries(Pre.q_values) \ {PriorEntry} :
           Pre.q_values[e[1]][e[2]] # Zero
    /\ \E e \in Entries(q_values[Me]) \ Entries(Pre.q_values) : e # PriorEntry

\* an update at a terminal time step that created the entry it wrote
C15_TerminalExample ==
    /\ Updating /\ call.time_step.last
    /\ PriorEntry \notin Entries(Pre.q_values)
    /\ Pre.prev_action # NoneAction
    /\ q_values[Me][PriorEntry[1]][PriorEntry[2]] # Zero

\* C16: the set of entries of a value store only grows (every entry it ever
\* held is present, and no call removes one), and an entry that no learning
\* update has written holds 0.0.
C16_EntriesOnlyGrow ==
    /\ \A i \in DOMAIN config :
           /\ ever_created[i] \subseteq Entries(q_values[i])
           /\ \A e \in Entries(q_values[i]) \ ever_updated[i] :
                  q_values[i][e[1]][e[2]] = Zero
    /\ Called => Entries(Pre.q_values) \subseteq Entries(q_values[Me])

\* after more than two calls: entries of two states are present, one was
\* written by a learning update and holds a learned value, one was created by a
\* read in an earlier call, never written, and holds 0.0
C16_Witness ==
    /\ ncalls > 2 /\ Called
    /\ \E e \in ever_updated[Me] : q_values[Me][e[1]][e[2]] # Zero
    /\ \E e \in Entries(Pre.q_values) \ ever_updated[Me] :
           /\ e[1] # call.info_state
           /\ q_values[Me][e[1]][e[2]] = Zero
    /\ \E e \in Entries(q_values[Me]) \ Entries(Pre.q_values) : e \notin ever_updated[Me]

\* C17: a call at a non-terminal time step with a non-empty legal-action list
\* returns an action of that list, whatever is_evaluation, top1, the
\* exploration probability and the random draws are.
C17_ReturnedActionIsLegal ==
    (Called /\ ~call.time_step.last /\ call.legal_actions # <<>>) =>
        /\ call.outcome = "StepOutput"
        /\ \E k \in 1..Len(call.legal_actions) : call.action = call.legal_actions[k]

\* a training call with top1 whose exploring branch produced the uniform
\* distribution over the list <<2, 0>>: np.argmax returns action 0
C17_Witness ==
    /\ Returned /\ ~call.time_step.last /\ ~call.is_evaluation
    /\ call.top1 /\ call.explore
    /\ call.legal_actions = <<2, 0>>
    /\ call.probs[0] = call.probs[2] /\ call.probs[1] = Zero
    /\ call.action = 0

\* a training call without top1 that returned the sampled action
C17_SampledExample ==
    /\ Returned /\ ~call.time_step.last /\ ~call.is_evaluation
    /\ ~call.top1 /\ call.explore /\ call.action = 2

\* C18: in the training loop of main no agent holds a pending transition
\* before the first move of an episode, which is where the evaluation runs
\* take place, and every learning update uses a pending transition recorded in
\* the episode the update is made in.
C18_PendingStaysWithinEpisode ==
    /\ main.pc = "start" => \A i \in DOMAIN config : prev_info_state[i] = None
    /\ \A i \in DOMAIN config :
           /\ prev_info_state[i] = None <=> main.recorded[i] = -1
           /\ main.recorded[i] # -1 => main.recorded[i] = main.episode
    /\ main.used.agent # -1 => main.used.recorded = main.used.episode

\* an evaluation call made before the second episode, after both agents
\* learned from the terminal time step of the first
C18_Witness ==
    /\ main.pc = "start" /\ main.episode = 1
    /\ Called /\ call.is_evaluation /\ call.outcome = "StepOutput"
    /\ \A i \in DOMAIN config : nupdates[i] > 0
    /\ main.used = [agent |-> 1, recorded |-> 0, episode |-> 0]

\* an update made inside the second episode from a transition recorded in it
C18_SecondEpisodeUpdate ==
    /\ main.pc = "playing" /\ main.episode = 1
    /\ Called /\ call.learned
    /\ main.used = [agent |-> 0, recorded |-> 1, episode |-> 1]

====
